---- MODULE Spec2Model ----
(***************************************************************************)
(* Subscription usage-and-entitlement core of interview-pro-backend:       *)
(* subscription rows, usage counters with the lazy monthly reset, voucher  *)
(* validation, subscribe / cancel and the payment webhook handlers.        *)
(* Requests are handled by concurrent workers; a worker holds an ORM       *)
(* snapshot of the row it loaded and writes back the columns it changed.   *)
(***************************************************************************)
EXTENDS Integers, Sequences, FiniteSets, TLC

\* ------------------------------------------------------------------ bounds
NumProcs == 2        \* concurrent request workers
NumUsers == 1        \* user accounts
MaxSubs == 2         \* rows of user_subscriptions
MaxTime == 4         \* last clock tick
TicksPerDay == 2     \* clock ticks in a day (times of day)
DaysPerMonth == 2    \* days in a calendar month
MaxUsage == 2        \* cap of a counter on an unlimited plan
MaxTxns == 2         \* rows of payment_transactions
MaxVouchers == 1     \* rows of discount_vouchers
MaxCoupons == 2      \* coupons created at the payment gateway

\* --------------------------------------------------------------- constants
None == -1
MonthlyDays == 30
YearlyDays == 365

Procs == 1..NumProcs
Users == 1..NumUsers
Times == 0..MaxTime

\* ---------------------------------------------------------------- calendar
TicksPerMonth == TicksPerDay * DaysPerMonth
Month(t) == t \div TicksPerMonth
MonthStart(t) == Month(t) * TicksPerMonth
\* day 1 of the month after that of t, at the time of day of t
ReplaceDay1NextMonth(t) == MonthStart(t) + TicksPerMonth + (t % TicksPerDay)

\* datetime.replace(day=1): day 1 of the month of t, at the time of day of t
ReplaceDay1(t) == MonthStart(t) + (t % TicksPerDay)

\* ------------------------------------------------------------ plan catalog
PlanIds == {"free", "premium"}
Plans == [p \in PlanIds |->
  IF p = "free"
  THEN [price_monthly |-> 0, max_interviews_per_month |-> 3, max_cvs |-> 1,
        max_business_cards |-> 1, ai_feedback |-> FALSE,
        advanced_analytics |-> FALSE, priority_support |-> FALSE,
        custom_branding |-> FALSE]
  ELSE [price_monthly |-> 1999, max_interviews_per_month |-> 0, max_cvs |-> 0,
        max_business_cards |-> 0, ai_feedback |-> TRUE,
        advanced_analytics |-> TRUE, priority_support |-> TRUE,
        custom_branding |-> FALSE]]

Countable == {"interview", "cv", "business_card"}
BooleanFeatures == {"ai_feedback", "advanced_analytics", "priority_support",
                    "custom_branding"}
FeatureKinds == Countable \cup BooleanFeatures \cup {"unknown"}
BillingCycles == {"monthly", "yearly"}
Codes == {"SAVE"}
NoCode == ""

VARIABLES now, subs, customer, vouchers, voucher_uses, coupons, txns,
          pc, loc

vars == <<now, subs, customer, vouchers, voucher_uses, coupons, txns,
          pc, loc>>
db == <<subs, customer, vouchers, voucher_uses, coupons, txns>>

\* ------------------------------------------------------- UserSubscription
NewSub(u, plan, st, cycle, nb, stripeId) ==
  [user_id |-> u, plan_id |-> plan, status |-> st, billing_cycle |-> cycle,
   end_date |-> None, next_billing_date |-> nb, cancelled_at |-> None,
   stripe_subscription_id |-> stripeId,
   interviews_used_this_month |-> 0, cvs_created |-> 0,
   business_cards_created |-> 0, usage_reset_date |-> now]

NoRow == [user_id |-> 0, plan_id |-> "free", status |-> "none",
          billing_cycle |-> "monthly", end_date |-> None,
          next_billing_date |-> None, cancelled_at |-> None,
          stripe_subscription_id |-> None,
          interviews_used_this_month |-> 0, cvs_created |-> 0,
          business_cards_created |-> 0, usage_reset_date |-> 0]

Used(s, f) ==
  CASE f = "interview" -> s.interviews_used_this_month
    [] f = "cv" -> s.cvs_created
    [] f = "business_card" -> s.business_cards_created
    [] OTHER -> 0

\* the attributes of a row that a request for feature f reads
Attrs(row, f) ==
  [plan_id |-> row.plan_id, status |-> row.status, end_date |-> row.end_date,
   usage_reset_date |-> row.usage_reset_date,
   interviews_used_this_month |-> row.interviews_used_this_month,
   used |-> Used(row, f)]

\* the gateway's coupons of one voucher and user: those created, and those
\* of them that a created gateway subscription carries
NoCoupons == [created |-> 0, attached |-> 0]

NoSnap == [plan_id |-> "free", status |-> "none", end_date |-> None,
           usage_reset_date |-> 0, interviews_used_this_month |-> 0,
           used |-> 0]

NoLoc == [user |-> 0, feature |-> "unknown", sid |-> 0, snap |-> NoSnap,
          plan |-> "free", cycle |-> "monthly", code |-> NoCode, vid |-> 0]

\* an is_active that lets the instant of end_date count as active
IsActiveInclusive(s, t) ==
  s.status = "active" /\ (s.end_date = None \/ s.end_date >= t)

is_active(s, t) ==
  s.status = "active" /\ (s.end_date = None \/ s.end_date > t)

NeedsReset(s, t) ==
  s.usage_reset_date # None /\ s.usage_reset_date < ReplaceDay1(t)

Limit(plan, f) ==
  CASE f = "interview" -> Plans[plan].max_interviews_per_month
    [] f = "cv" -> Plans[plan].max_cvs
    [] f = "business_card" -> Plans[plan].max_business_cards
    [] OTHER -> 0

\* a comparison that lets a counter at the limit pass
UnderLimitInclusive(used, limit) == used <= limit

\* the comparison of can_use_feature for a countable feature
UnderLimit(used, limit) == used < limit

\* a verdict that treats the limit 0 as a limit like any other
FeatureAllowedNoUnlimited(s, f) ==
  CASE f \in Countable -> UnderLimit(s.used, Limit(s.plan_id, f))
    [] f = "ai_feedback" -> Plans[s.plan_id].ai_feedback
    [] f = "advanced_analytics" -> Plans[s.plan_id].advanced_analytics
    [] f = "priority_support" -> Plans[s.plan_id].priority_support
    [] f = "custom_branding" -> Plans[s.plan_id].custom_branding
    [] OTHER -> FALSE

\* a verdict that lets a feature kind it does not know pass
FeatureAllowedOpen(s, f) ==
  CASE f \in Countable ->
         Limit(s.plan_id, f) = 0 \/ UnderLimit(s.used, Limit(s.plan_id, f))
    [] f = "ai_feedback" -> Plans[s.plan_id].ai_feedback
    [] f = "advanced_analytics" -> Plans[s.plan_id].advanced_analytics
    [] f = "priority_support" -> Plans[s.plan_id].priority_support
    [] f = "custom_branding" -> Plans[s.plan_id].custom_branding
    [] OTHER -> TRUE

\* can_use_feature after the is_active test and the lazy reset, on the
\* attributes a of the row
FeatureAllowed(s, f) ==
  CASE f \in Countable ->
         Limit(s.plan_id, f) = 0 \/ UnderLimit(s.used, Limit(s.plan_id, f))
    [] f = "ai_feedback" -> Plans[s.plan_id].ai_feedback
    [] f = "advanced_analytics" -> Plans[s.plan_id].advanced_analytics
    [] f = "priority_support" -> Plans[s.plan_id].priority_support
    [] f = "custom_branding" -> Plans[s.plan_id].custom_branding
    [] OTHER -> FALSE

\* the row as the lazy reset of can_use_feature commits it: the UPDATE
\* carries the columns whose value the worker changed in its snapshot
ResetRow(row, snap, t) ==
  [row EXCEPT !.interviews_used_this_month =
                 IF snap.interviews_used_this_month # 0 THEN 0 ELSE @,
              !.usage_reset_date = ReplaceDay1(t)]

\* a can_use_feature without its is_active test
CanUseFeatureUnguarded(row, f, t) == FeatureAllowed(Attrs(row, f), f)

\* the value can_use_feature returns at time t on a row just loaded: false
\* unless is_active, else the verdict on the row as the lazy reset leaves it
can_use_feature(row, f, t) ==
  IF ~is_active(row, t) THEN FALSE
  ELSE FeatureAllowed(
         Attrs(IF NeedsReset(row, t) THEN ResetRow(row, row, t) ELSE row, f),
         f)

\* an increment done by the database on the stored value
IncrementedInPlace(snapVal, dbVal) == dbVal + 1

\* the value increment_usage commits for a counter: the snapshot's plus one
Incremented(snapVal, dbVal) == snapVal + 1

IncrementRow(row, snap, f) ==
  CASE f = "interview" ->
         [row EXCEPT !.interviews_used_this_month = Incremented(snap.used, @)]
    [] f = "cv" ->
         [row EXCEPT !.cvs_created = Incremented(snap.used, @)]
    [] f = "business_card" ->
         [row EXCEPT !.business_cards_created = Incremented(snap.used, @)]
    [] OTHER -> row

\* of its snapshot, increment_usage reads the counter only
Kept(snap) == [NoSnap EXCEPT !.used = snap.used]

\* UserSubscription.query.filter_by(user_id=u, status='active')
ActiveRows(u) ==
  {i \in DOMAIN subs : subs[i].user_id = u /\ subs[i].status = "active"}

Init ==
  /\ now = 0
  /\ subs = <<>>
  /\ customer = [u \in Users |-> FALSE]
  /\ vouchers = <<>>
  /\ voucher_uses = <<>>
  /\ coupons = [v \in 1..MaxVouchers |-> [u \in Users |-> NoCoupons]]
  /\ txns = <<>>
  /\ pc = [p \in Procs |-> "idle"]
  /\ loc = [p \in Procs |-> NoLoc]

\* the worker answers the request and forgets its session
Finish(p) ==
  /\ pc' = [pc EXCEPT ![p] = "idle"]
  /\ loc' = [loc EXCEPT ![p] = NoLoc]

Tick ==
  /\ now < MaxTime
  /\ now' = now + 1
  /\ UNCHANGED <<db, pc, loc>>

\* --------------------------------------------- POST /increment-usage
\* get_user_subscription: the worker loads an active row of the user
IncLoad(p, u, f) ==
  /\ pc[p] = "idle"
  /\ UNCHANGED <<now, db>>
  /\ IF ActiveRows(u) = {}
     THEN Finish(p)
     ELSE \E i \in ActiveRows(u) :
            /\ pc' = [pc EXCEPT ![p] = "inc_check"]
            /\ loc' = [loc EXCEPT ![p] =
                 [NoLoc EXCEPT !.user = u, !.feature = f, !.sid = i,
                               !.snap = Attrs(subs[i], f)]]

\* can_use_feature on the loaded row: is_active, then the lazy reset and
\* its commit, or else the verdict
IncCheck(p) ==
  /\ pc[p] = "inc_check"
  /\ UNCHANGED <<now, customer, vouchers, voucher_uses, coupons, txns>>
  /\ LET l == loc[p] IN
     IF ~is_active(l.snap, now)
     THEN /\ Finish(p)
          /\ UNCHANGED subs
     ELSE IF NeedsReset(l.snap, now)
     THEN /\ subs' = [subs EXCEPT ![l.sid] = ResetRow(@, l.snap, now)]
          /\ pc' = [pc EXCEPT ![p] = "inc_eval"]
          /\ loc' = [loc EXCEPT ![p].snap = NoSnap]
     ELSE /\ UNCHANGED subs
          /\ IF FeatureAllowed(l.snap, l.feature)
             THEN /\ pc' = [pc EXCEPT ![p] = "inc_write"]
                  /\ loc' = [loc EXCEPT ![p].snap = Kept(l.snap)]
             ELSE Finish(p)

\* the verdict after the reset's commit expired the snapshot: the row is
\* read again
IncEval(p) ==
  /\ pc[p] = "inc_eval"
  /\ UNCHANGED <<now, db>>
  /\ LET l == loc[p]
         fresh == Attrs(subs[l.sid], l.feature) IN
     IF FeatureAllowed(fresh, l.feature)
     THEN /\ pc' = [pc EXCEPT ![p] = "inc_write"]
          /\ loc' = [loc EXCEPT ![p].snap = Kept(fresh)]
     ELSE Finish(p)

\* increment_usage: the counter of the snapshot plus one is committed and
\* the request answers 200
IncWrite(p) ==
  /\ pc[p] = "inc_write"
  /\ LET l == loc[p] IN
     /\ Limit(subs[l.sid].plan_id, l.feature) = 0 => l.snap.used < MaxUsage
     /\ subs' = [subs EXCEPT ![l.sid] = IncrementRow(@, l.snap, l.feature)]
  /\ Finish(p)
  /\ UNCHANGED <<now, customer, vouchers, voucher_uses, coupons, txns>>

\* ---------------------------------------------- POST /check-feature
\* the route loads an active row of the user and asks can_use_feature,
\* which commits the lazy reset and reads the row again
check_feature_access(u, f) ==
  /\ UNCHANGED <<now, customer, vouchers, voucher_uses, coupons, txns,
                 pc, loc>>
  /\ IF ActiveRows(u) = {}
     THEN UNCHANGED subs
     ELSE \E i \in ActiveRows(u) :
            IF is_active(subs[i], now) /\ NeedsReset(subs[i], now)
            THEN subs' = [subs EXCEPT ![i] = ResetRow(@, subs[i], now)]
            ELSE UNCHANGED subs

\* the 'usage' part of the answer of GET /usage, read from the row
usage_stats(row) ==
  [interviews_used_this_month |-> row.interviews_used_this_month,
   cvs_created |-> row.cvs_created,
   business_cards_created |-> row.business_cards_created,
   usage_reset_date |-> row.usage_reset_date]

\* GET /usage served from row i of user u: the usage is read from the row as
\* loaded, then the 'features' part calls can_use_feature, whose lazy reset
\* is committed
UsageQueryOn(u, i) ==
  /\ i \in ActiveRows(u)
  /\ UNCHANGED <<now, customer, vouchers, voucher_uses, coupons, txns,
                 pc, loc>>
  /\ IF is_active(subs[i], now) /\ NeedsReset(subs[i], now)
     THEN subs' = [subs EXCEPT ![i] = ResetRow(@, subs[i], now)]
     ELSE UNCHANGED subs

\* GET /usage: 404 without a row of status active
get_usage_stats(u) ==
  IF ActiveRows(u) = {} THEN UNCHANGED vars
  ELSE \E i \in ActiveRows(u) : UsageQueryOn(u, i)

\* --------------------------------------------------------- DiscountVoucher
VoucherByCode(c) == {i \in DOMAIN vouchers : vouchers[i].code = c}

UsedBy(vid, u) ==
  {k \in DOMAIN voucher_uses :
     voucher_uses[k].voucher_id = vid /\ voucher_uses[k].user_id = u}

\* an is_valid that tests the usage limit before the validity window
IsValidLimitFirst(vid, u, plan, t) ==
  LET v == vouchers[vid] IN
  IF ~v.is_active THEN "Voucher is not active"
  ELSE IF v.used_count >= v.max_uses THEN "Voucher usage limit reached"
  ELSE IF v.valid_from # None /\ v.valid_from > t
  THEN "Voucher is not yet valid"
  ELSE IF v.valid_until # None /\ v.valid_until < t
  THEN "Voucher has expired"
  ELSE IF plan # "" /\ v.applicable_plans # {} /\ plan \notin v.applicable_plans
  THEN "Voucher not applicable to this plan"
  ELSE IF u # 0 /\ v.single_use_per_user /\ UsedBy(vid, u) # {}
  THEN "Voucher already used by this user"
  ELSE "Voucher is valid"

\* DiscountVoucher.is_valid: the reason of the first failing test
is_valid(vid, u, plan, t) ==
  LET v == vouchers[vid] IN
  IF ~v.is_active THEN "Voucher is not active"
  ELSE IF v.valid_from # None /\ v.valid_from > t
  THEN "Voucher is not yet valid"
  ELSE IF v.valid_until # None /\ v.valid_until < t
  THEN "Voucher has expired"
  ELSE IF v.used_count >= v.max_uses THEN "Voucher usage limit reached"
  ELSE IF plan # "" /\ v.applicable_plans # {} /\ plan \notin v.applicable_plans
  THEN "Voucher not applicable to this plan"
  ELSE IF u # 0 /\ v.single_use_per_user /\ UsedBy(vid, u) # {}
  THEN "Voucher already used by this user"
  ELSE "Voucher is valid"

\* round(x, 2) on an amount given in hundredths of a cent: the nearest cent;
\* half a cent goes to either neighbour, as the binary value of x decides
Round2(n) ==
  IF n % 100 < 50 THEN {n \div 100}
  ELSE IF n % 100 > 50 THEN {n \div 100 + 1}
  ELSE {n \div 100, n \div 100 + 1}

\* a calculate_discount that does not cap a fixed amount at the original
CalculateDiscountUncapped(v, original_amount) ==
  IF v.discount_type = "percentage"
  THEN Round2(original_amount * v.discount_value)
  ELSE {v.discount_value}

\* DiscountVoucher.calculate_discount, amounts in cents: the discounts it can
\* return for an original amount
calculate_discount(v, original_amount) ==
  IF v.discount_type = "percentage"
  THEN Round2(original_amount * v.discount_value)
  ELSE {IF v.discount_value < original_amount THEN v.discount_value
        ELSE original_amount}

\* PaymentService.create_voucher, called by POST /admin/vouchers
create_voucher(code, dtype, dvalue, until, maxUses, plans) ==
  /\ Len(vouchers) < MaxVouchers
  /\ VoucherByCode(code) = {}
  /\ vouchers' = Append(vouchers,
       [code |-> code, discount_type |-> dtype, discount_value |-> dvalue,
        is_active |-> TRUE, valid_from |-> now,
        valid_until |-> until, max_uses |-> maxUses, used_count |-> 0,
        single_use_per_user |-> TRUE, applicable_plans |-> plans])
  /\ UNCHANGED <<now, subs, customer, voucher_uses, coupons, txns, pc, loc>>

\* PUT /admin/vouchers/<id>: a partial update of is_active, max_uses,
\* valid_until
update_voucher(vid, hasActive, active, hasMax, maxUses, hasUntil, until) ==
  /\ vid \in DOMAIN vouchers
  /\ vouchers' = [vouchers EXCEPT
       ![vid].is_active = IF hasActive THEN active ELSE @,
       ![vid].max_uses = IF hasMax THEN maxUses ELSE @,
       ![vid].valid_until = IF hasUntil THEN until ELSE @]
  /\ UNCHANGED <<now, subs, customer, voucher_uses, coupons, txns, pc, loc>>

\* what PaymentService.validate_voucher answers at time t
ValidateResult(code, u, plan, t) ==
  IF VoucherByCode(code) = {} THEN {"Invalid voucher code"}
  ELSE {is_valid(vid, u, plan, t) : vid \in VoucherByCode(code)}

\* POST /vouchers/validate: the answer is computed from the voucher found by
\* its code and nothing is written
validate_voucher(code, u, plan) ==
  /\ \/ VoucherByCode(code) = {}
     \/ \E vid \in VoucherByCode(code) :
          is_valid(vid, u, plan, now) \in
            {"Voucher is not active", "Voucher is not yet valid",
             "Voucher has expired", "Voucher usage limit reached",
             "Voucher not applicable to this plan",
             "Voucher already used by this user", "Voucher is valid"}
  /\ UNCHANGED vars

\* ------------------------------------------------------- POST /subscribe
BillingTicks(cycle) ==
  (IF cycle = "monthly" THEN MonthlyDays ELSE YearlyDays) * TicksPerDay

\* the workers that are serving a subscribe request
Subscribing == {q \in Procs : pc[q] \in {"sub_create", "sub_apply"}}

\* the route: get_user_subscription returns a row with status active, if
\* there is one, and a user for whom that row is_active is turned away
SubBegin(p, u, plan, cycle, code) ==
  /\ pc[p] = "idle"
  /\ Len(subs) + Cardinality(Subscribing) < MaxSubs
  /\ UNCHANGED <<now, db>>
  /\ \E found \in IF ActiveRows(u) = {} THEN {0} ELSE ActiveRows(u) :
       IF found # 0 /\ is_active(subs[found], now)
       THEN Finish(p)
       ELSE /\ pc' = [pc EXCEPT ![p] = "sub_create"]
            /\ loc' = [loc EXCEPT ![p] =
                 [NoLoc EXCEPT !.user = u, !.plan = plan, !.cycle = cycle,
                               !.code = code]]

\* _create_free_subscription: an active row of the user is cancelled and the
\* free row is inserted active
create_free_subscription(p) ==
  LET l == loc[p]
      row == NewSub(l.user, l.plan, "active", "monthly", None, None) IN
  /\ Len(subs) < MaxSubs
  /\ \/ /\ ActiveRows(l.user) = {}
        /\ subs' = Append(subs, row)
     \/ \E i \in ActiveRows(l.user) :
          subs' = Append([subs EXCEPT ![i].status = "cancelled",
                                      ![i].cancelled_at = now], row)
  /\ Finish(p)
  /\ UNCHANGED <<now, customer, vouchers, voucher_uses, coupons, txns>>

\* create_subscription up to the validation of the voucher; stripeOk is the
\* outcome of the gateway's customer creation
SubCreate(p, stripeOk) ==
  /\ pc[p] = "sub_create"
  /\ LET l == loc[p] IN
     IF Plans[l.plan].price_monthly = 0
     THEN create_free_subscription(p)
     ELSE /\ UNCHANGED <<now, subs, vouchers, voucher_uses, coupons, txns>>
          /\ IF ~customer[l.user] /\ ~stripeOk
             THEN /\ Finish(p)
                  /\ UNCHANGED customer
             ELSE /\ customer' = [customer EXCEPT ![l.user] = TRUE]
                  /\ IF l.code = NoCode
                     THEN /\ pc' = [pc EXCEPT ![p] = "sub_apply"]
                          /\ UNCHANGED loc
                     ELSE IF VoucherByCode(l.code) = {}
                     THEN Finish(p)
                     ELSE \E vid \in VoucherByCode(l.code) :
                            IF is_valid(vid, l.user, l.plan, now)
                                 = "Voucher is valid"
                            THEN /\ pc' = [pc EXCEPT ![p] = "sub_apply"]
                                 /\ loc' = [loc EXCEPT ![p].vid = vid]
                            ELSE Finish(p)

\* what a successful _apply_voucher leaves behind: one more gateway coupon,
\* whose id names the voucher and the user; used_count is not written and no
\* VoucherUse is inserted
ApplyVoucher(cs, vid, u) == [cs EXCEPT ![vid][u].created = @ + 1]

\* stripe.Subscription.create succeeds with the coupon among its parameters
AttachCoupon(cs, vid, u) == [cs EXCEPT ![vid][u].attached = @ + 1]

\* the rest of create_subscription: the coupon of the voucher and the
\* subscription are created at the gateway, the pending row is inserted
SubApply(p, couponOk, stripeOk) ==
  /\ pc[p] = "sub_apply"
  /\ Len(subs) < MaxSubs
  /\ UNCHANGED <<now, customer, vouchers, voucher_uses, txns>>
  /\ LET l == loc[p] IN
     IF l.vid # 0 /\ ~couponOk
     THEN /\ Finish(p)
          /\ UNCHANGED <<subs, coupons>>
     ELSE /\ l.vid # 0 => coupons[l.vid][l.user].created < MaxCoupons
          /\ coupons' =
               IF l.vid = 0 THEN coupons
               ELSE IF ~stripeOk THEN ApplyVoucher(coupons, l.vid, l.user)
               ELSE AttachCoupon(ApplyVoucher(coupons, l.vid, l.user),
                                 l.vid, l.user)
          /\ Finish(p)
          /\ IF ~stripeOk
             THEN UNCHANGED subs
             ELSE subs' = Append(subs,
                    NewSub(l.user, l.plan, "pending", l.cycle,
                           now + BillingTicks(l.cycle), Len(subs) + 1))

\* --------------------------------------------------------- POST /cancel
\* an end_date that every cancellation leaves as it was
CancelledEndDateKept(row, immediate, t) == row.end_date

\* the end_date cancel_subscription commits: the time of the cancellation,
\* except for a paid subscription cancelled at period end, whose end_date
\* is not written
CancelledEndDate(row, immediate, t) ==
  IF row.stripe_subscription_id # None /\ ~immediate THEN row.end_date ELSE t

\* a cancellation that is written whatever the gateway answers
CancelledBeforeGateway(row, immediate, stripeOk, t) ==
  [row EXCEPT !.status = "cancelled",
              !.end_date = CancelledEndDate(row, immediate, t),
              !.cancelled_at = t]

\* the row cancel_subscription commits at time t: a gateway call is made for
\* a paid subscription, before anything is assigned, and its failure leaves
\* the row as it was
Cancelled(row, immediate, stripeOk, t) ==
  IF row.stripe_subscription_id # None /\ ~stripeOk
  THEN row
  ELSE [row EXCEPT !.status = "cancelled",
                   !.end_date = CancelledEndDate(row, immediate, t),
                   !.cancelled_at = t]

\* PaymentService.cancel_subscription; stripeOk is the outcome of the
\* gateway call
cancel_subscription(u, immediate, stripeOk) ==
  /\ UNCHANGED <<now, customer, vouchers, voucher_uses, coupons, txns,
                 pc, loc>>
  /\ IF ActiveRows(u) = {}
     THEN UNCHANGED subs
     ELSE \E i \in ActiveRows(u) :
            subs' = [subs EXCEPT
                     ![i] = Cancelled(@, immediate, stripeOk, now)]

\* ------------------------------------------------------- POST /webhook
ByStripeId(sid) ==
  {i \in DOMAIN subs : subs[i].stripe_subscription_id = sid}

\* a transaction recorded as completed whatever the event
TransactionCompleted(i, st) ==
  [user_id |-> subs[i].user_id, subscription_id |-> i, status |-> "completed"]

\* the PaymentTransaction a payment webhook inserts for subscription row i
Transaction(i, st) ==
  [user_id |-> subs[i].user_id, subscription_id |-> i, status |-> st]

\* invoice.payment_succeeded
handle_payment_succeeded(sid) ==
  /\ UNCHANGED <<now, customer, vouchers, voucher_uses, coupons, pc, loc>>
  /\ IF sid = None \/ ByStripeId(sid) = {}
     THEN UNCHANGED <<subs, txns>>
     ELSE \E i \in ByStripeId(sid) :
            /\ Len(txns) < MaxTxns
            /\ subs' = [subs EXCEPT
                 ![i].status = "active",
                 ![i].next_billing_date =
                    now + BillingTicks(subs[i].billing_cycle)]
            /\ txns' = Append(txns, Transaction(i, "completed"))

\* invoice.payment_failed
handle_payment_failed(sid) ==
  /\ UNCHANGED <<now, subs, customer, vouchers, voucher_uses, coupons, pc,
                 loc>>
  /\ IF sid = None \/ ByStripeId(sid) = {}
     THEN UNCHANGED txns
     ELSE \E i \in ByStripeId(sid) :
            /\ Len(txns) < MaxTxns
            /\ txns' = Append(txns, Transaction(i, "failed"))

\* customer.subscription.deleted
handle_subscription_deleted(sid) ==
  /\ UNCHANGED <<now, customer, vouchers, voucher_uses, coupons, txns, pc,
                 loc>>
  /\ IF ByStripeId(sid) = {}
     THEN UNCHANGED subs
     ELSE \E i \in ByStripeId(sid) :
            subs' = [subs EXCEPT ![i].status = "cancelled",
                                 ![i].end_date = now,
                                 ![i].cancelled_at = now]

\* ----------------------------------------------------- specifications
SidInputs == {None} \cup (1..(MaxSubs + 1))
UsageFeatures == Countable \cup {"ai_feedback", "unknown"}

\* usage accounting: a subscription is created and activated, features are
\* checked and counted by concurrent workers, the clock advances
NextUsage ==
  \/ Tick
  \/ \E p \in Procs, u \in Users, plan \in PlanIds :
       subs = <<>> /\ SubBegin(p, u, plan, "monthly", NoCode)
  \/ \E p \in Procs : subs = <<>> /\ SubCreate(p, TRUE)
  \/ \E p \in Procs : subs = <<>> /\ SubApply(p, TRUE, TRUE)
  \/ \E sid \in 1..MaxSubs : txns = <<>> /\ handle_payment_succeeded(sid)
  \/ \E p \in Procs, u \in Users, f \in UsageFeatures : IncLoad(p, u, f)
  \/ \E p \in Procs : IncCheck(p)
  \/ \E p \in Procs : IncEval(p)
  \/ \E p \in Procs : IncWrite(p)
  \/ \E u \in Users, f \in UsageFeatures : check_feature_access(u, f)

SpecUsage == Init /\ [][NextUsage]_vars

\* the same requests served one at a time
NoneInFlight == \A q \in Procs : pc[q] = "idle"

NextSeq ==
  \/ Tick
  \/ \E p \in Procs, u \in Users, plan \in PlanIds :
       subs = <<>> /\ NoneInFlight /\ SubBegin(p, u, plan, "monthly", NoCode)
  \/ \E p \in Procs : subs = <<>> /\ SubCreate(p, TRUE)
  \/ \E p \in Procs : subs = <<>> /\ SubApply(p, TRUE, TRUE)
  \/ \E sid \in 1..MaxSubs : txns = <<>> /\ handle_payment_succeeded(sid)
  \/ \E p \in Procs, u \in Users, f \in FeatureKinds :
       NoneInFlight /\ IncLoad(p, u, f)
  \/ \E p \in Procs : IncCheck(p)
  \/ \E p \in Procs : IncEval(p)
  \/ \E p \in Procs : IncWrite(p)
  \/ \E u \in Users, f \in FeatureKinds :
       NoneInFlight /\ check_feature_access(u, f)
  \/ \E u \in Users : NoneInFlight /\ get_usage_stats(u)

SpecSeq == Init /\ [][NextSeq]_vars

\* vouchers: the admin creates and updates a voucher, users validate it and
\* subscribe to the paid plan with its code
MaxUsesInputs == {-1, 1, 2}
UntilInputs == {1, MaxTime}
\* the discounts an admin posts: a percentage, or a fixed amount in cents
DiscountInputs ==
  {<<"percentage", 20>>, <<"percentage", 100>>, <<"percentage", 150>>,
   <<"fixed_amount", 15000>>, <<"fixed_amount", -500>>}

NextVoucher ==
  \/ Tick
  \/ \E until \in UntilInputs, maxUses \in MaxUsesInputs,
        plans \in {{}, {"free"}}, d \in DiscountInputs :
       \E code \in Codes :
         create_voucher(code, d[1], d[2], until, maxUses, plans)
  \/ \E vid \in 1..MaxVouchers, hasActive \in BOOLEAN, active \in BOOLEAN,
        hasMax \in BOOLEAN, maxUses \in MaxUsesInputs,
        hasUntil \in BOOLEAN, until \in UntilInputs :
       update_voucher(vid, hasActive, active, hasMax, maxUses, hasUntil,
                      until)
  \/ \E code \in Codes, u \in {0} \cup Users, plan \in {""} \cup PlanIds :
       validate_voucher(code, u, plan)
  \/ \E p \in Procs, u \in Users, code \in Codes \cup {NoCode} :
       SubBegin(p, u, "premium", "monthly", code)
  \/ \E p \in Procs, stripeOk \in BOOLEAN : SubCreate(p, stripeOk)
  \/ \E p \in Procs, couponOk \in BOOLEAN, stripeOk \in BOOLEAN :
       SubApply(p, couponOk, stripeOk)

SpecVoucher == Init /\ [][NextVoucher]_vars

\* lifecycle: users subscribe and cancel, the gateway reports payments and
\* deletions
NextLife ==
  \/ Tick
  \/ \E p \in Procs, u \in Users, plan \in PlanIds, cycle \in BillingCycles :
       SubBegin(p, u, plan, cycle, NoCode)
  \/ \E p \in Procs, stripeOk \in BOOLEAN : SubCreate(p, stripeOk)
  \/ \E p \in Procs, stripeOk \in BOOLEAN : SubApply(p, TRUE, stripeOk)
  \/ \E u \in Users, immediate \in BOOLEAN, stripeOk \in BOOLEAN :
       cancel_subscription(u, immediate, stripeOk)
  \/ \E sid \in SidInputs : handle_payment_succeeded(sid)
  \/ \E sid \in SidInputs : handle_payment_failed(sid)
  \/ \E sid \in 1..(MaxSubs + 1) : handle_subscription_deleted(sid)

SpecLife == Init /\ [][NextLife]_vars

\* validation as a function of the stored voucher, the redemptions on record
\* and the clock: the tables start with any voucher row and with or without
\* a redemption of user 1
VoucherRows ==
  [code : Codes, discount_type : {"percentage", "fixed_amount"},
   discount_value : {20, 100, 15000},
   is_active : BOOLEAN, valid_from : {None, 0, 2},
   valid_until : {1, 3}, max_uses : MaxUsesInputs, used_count : {0, 1},
   single_use_per_user : BOOLEAN, applicable_plans : {{}, {"free"}}]

InitValidate ==
  /\ now \in Times
  /\ subs = <<>>
  /\ customer = [u \in Users |-> FALSE]
  /\ vouchers \in {<<v>> : v \in VoucherRows}
  /\ voucher_uses \in {<<>>, <<[voucher_id |-> 1, user_id |-> 1]>>}
  /\ coupons = [v \in 1..MaxVouchers |-> [u \in Users |-> NoCoupons]]
  /\ txns = <<>>
  /\ pc = [p \in Procs |-> "idle"]
  /\ loc = [p \in Procs |-> NoLoc]

ValidateCodes == Codes \cup {"NOPE"}

NextValidate ==
  \/ Tick
  \/ \E code \in ValidateCodes, u \in {0} \cup Users,
        plan \in {""} \cup PlanIds :
       validate_voucher(code, u, plan)

SpecValidate == InitValidate /\ [][NextValidate]_vars

\* the lifecycle with its scheduling: a request a worker has accepted is
\* carried through; requests and gateway events arrive or not
SpecLifeFair ==
  /\ SpecLife
  /\ \A p \in Procs :
       WF_vars((\E stripeOk \in BOOLEAN : SubCreate(p, stripeOk))
                 \/ (\E stripeOk \in BOOLEAN : SubApply(p, TRUE, stripeOk)))

\* the original amounts a discount is computed for, in cents
Amounts == {0, 1, 1999, 10000}

\* ------------------------------------------------------------- claims
RECURSIVE SumOver(_, _)
SumOver(f, S) ==
  IF S = {} THEN 0
  ELSE LET x == CHOOSE y \in S : TRUE IN
         f[x].attached + SumOver(f, S \ {x})

\* the purchases that succeeded with voucher v, over all users
Applications(cs, v) == SumOver(cs[v], Users)

\* C1: a voucher with max_uses >= 1 is applied to a purchase only while the
\* number of its earlier successful applications is below max_uses, so that
\* of the requests carrying a voucher with max_uses = 1 exactly one succeeds
ApplicationsWithinMaxUses ==
  [][\A v \in DOMAIN vouchers :
       (Applications(coupons', v) > Applications(coupons, v)
          /\ vouchers[v].max_uses >= 1) =>
         Applications(coupons, v) < vouchers[v].max_uses]_vars

\* C2: no user has two or more subscription rows with status active
AtMostOneActive ==
  \A u \in Users : Cardinality(ActiveRows(u)) <= 1

\* C3: the usage counter of a countable feature never exceeds the plan's
\* positive limit, under every interleaving of concurrent increment requests
UsageWithinLimit ==
  \A i \in DOMAIN subs : \A f \in Countable :
    Limit(subs[i].plan_id, f) > 0 =>
      Used(subs[i], f) <= Limit(subs[i].plan_id, f)

\* two requests passed the check on the same count; one has committed and
\* brought the counter to the limit, the other is still to write
UsageAtLimitInRace ==
  \E p \in Procs :
    /\ pc[p] = "inc_write"
    /\ loc[p].feature \in Countable
    /\ LET row == subs[loc[p].sid]
           lim == Limit(row.plan_id, loc[p].feature) IN
       /\ lim > 0
       /\ Used(row, loc[p].feature) = lim
       /\ loc[p].snap.used = lim - 1

\* the three usage counters of row i are the same before and after the step
SameCounters(i) ==
  \A f \in Countable : Used(subs'[i], f) = Used(subs[i], f)

\* C4: every increment request of a countable feature that reports success
\* leaves the feature's counter one higher than the step found it, so that k
\* concurrent successes raise it by k
NoLostUpdate ==
  [][\A p \in Procs :
       (pc[p] = "inc_write" /\ pc'[p] = "idle"
          /\ loc[p].feature \in Countable) =>
         Used(subs'[loc[p].sid], loc[p].feature)
           = Used(subs[loc[p].sid], loc[p].feature) + 1]_vars

\* C5: every voucher satisfies used_count <= max_uses
UsedCountWithinMaxUses ==
  \A v \in DOMAIN vouchers : vouchers[v].used_count <= vouchers[v].max_uses

\* the request of worker p has loaded an active row whose counter for its
\* countable feature is at the plan's positive limit
LoadedAtLimit(p) ==
  /\ pc[p] = "inc_check"
  /\ loc[p].feature \in Countable
  /\ is_active(loc[p].snap, now)
  /\ Limit(loc[p].snap.plan_id, loc[p].feature) > 0
  /\ loc[p].snap.used = Limit(loc[p].snap.plan_id, loc[p].feature)

\* C6 as stated: the entitlement check of an increment request whose counter
\* is at the positive limit does not let the request through and leaves all
\* three usage counters unchanged
AtLimitRejectedUnchanged ==
  [][\A p \in Procs :
       (LoadedAtLimit(p) /\ pc'[p] # "inc_check") =>
         pc'[p] # "inc_write" /\ SameCounters(loc[p].sid)]_vars

\* C6 amended: when the check of such a request does not apply the lazy
\* monthly reset, the request is rejected and the row is left as it was
AtLimitRejectedWithoutReset ==
  [][\A p \in Procs :
       (LoadedAtLimit(p) /\ ~NeedsReset(loc[p].snap, now)
          /\ pc'[p] # "inc_check") =>
         pc'[p] = "idle" /\ subs' = subs]_vars

\* a request is about to check a cv counter that earlier increments brought
\* to the limit, with no reset due
AtLimitCheckPending ==
  \E p \in Procs :
    /\ LoadedAtLimit(p)
    /\ ~NeedsReset(loc[p].snap, now)
    /\ loc[p].feature = "cv"
    /\ subs[loc[p].sid].cvs_created = Limit(subs[loc[p].sid].plan_id, "cv")

\* C7: every increment request that reports success raises exactly one of
\* the three usage counters by exactly 1 and leaves the other two unchanged
SuccessRaisesOneCounter ==
  [][\A p \in Procs :
       (pc[p] = "inc_write" /\ pc'[p] = "idle") =>
         \E f \in Countable :
           /\ Used(subs'[loc[p].sid], f) = Used(subs[loc[p].sid], f) + 1
           /\ \A g \in Countable \ {f} :
                Used(subs'[loc[p].sid], g) = Used(subs[loc[p].sid], g)]_vars

\* C8: while the counting period of a row began in the current calendar
\* month, no step decreases one of its usage counters, whatever the time of
\* day
NoMidMonthReset ==
  [][\A i \in DOMAIN subs :
       (i \in DOMAIN subs'
          /\ Month(subs[i].usage_reset_date) = Month(now)) =>
         \A f \in Countable : Used(subs'[i], f) >= Used(subs[i], f)]_vars

\* C9: the first entitlement check after a calendar-month boundary, which
\* moves usage_reset_date into the new month, leaves all three usage
\* counters at 0
RolloverZeroesAllCounters ==
  [][\A i \in DOMAIN subs :
       (i \in DOMAIN subs'
          /\ Month(subs[i].usage_reset_date) < Month(now)
          /\ Month(subs'[i].usage_reset_date) = Month(now)) =>
         \A f \in Countable : Used(subs'[i], f) = 0]_vars

\* C10: a cancellation at period end of an active paid subscription whose
\* next_billing_date lies in the future leaves is_active() true at the time
\* of the cancellation, which is before that date
ActiveUntilPeriodEnd ==
  [][\A u \in Users :
       cancel_subscription(u, FALSE, TRUE) =>
         \A i \in ActiveRows(u) :
           (/\ subs[i].stripe_subscription_id # None
            /\ is_active(subs[i], now)
            /\ subs[i].next_billing_date > now) =>
             is_active(subs'[i], now)]_vars

\* row i is cancelled in this step by a successful immediate cancellation or
\* by the cancellation of a free subscription
CancelledAtOnce(i) ==
  /\ subs[i].status = "active"
  /\ \E immediate \in BOOLEAN :
       /\ cancel_subscription(subs[i].user_id, immediate, TRUE)
       /\ immediate \/ subs[i].stripe_subscription_id = None
  /\ subs'[i] # subs[i]

\* C11: a successful immediate cancellation, or the cancellation of a free
\* subscription, leaves the row with status cancelled and end_date equal to
\* the time of the cancellation, and once a row has an end_date is_active()
\* is false on it after every later step
ImmediateCancelIsFinal ==
  [][\A i \in DOMAIN subs :
       /\ CancelledAtOnce(i) =>
            /\ subs'[i].status = "cancelled"
            /\ subs'[i].end_date = now
            /\ ~is_active(subs'[i], now')
       /\ (subs[i].end_date # None /\ ~is_active(subs[i], now)) =>
            (subs'[i].end_date # None /\ ~is_active(subs'[i], now'))]_vars

\* a paid subscription was cancelled immediately and a later payment event
\* set its status to active again, after its end_date
ReactivatedAfterImmediateCancel ==
  \E i \in DOMAIN subs :
    /\ subs[i].status = "active"
    /\ subs[i].cancelled_at # None
    /\ subs[i].end_date # None
    /\ subs[i].end_date < now

\* the lifecycle edges of a subscription's status
LifecycleEdges ==
  {<<"pending", "active">>, <<"active", "cancelled">>,
   <<"active", "suspended">>, <<"suspended", "active">>,
   <<"active", "expired">>, <<"cancelled", "expired">>,
   <<"suspended", "expired">>}

\* C12: the status of an existing row changes only along the lifecycle edges
StatusFollowsLifecycle ==
  [][\A i \in DOMAIN subs :
       subs'[i].status # subs[i].status =>
         <<subs[i].status, subs'[i].status>> \in LifecycleEdges]_vars

\* C13: a payment-failed event for an active subscription leaves that
\* subscription with status suspended
PaymentFailedSuspends ==
  [][\A sid \in 1..MaxSubs :
       (handle_payment_failed(sid) /\ txns' # txns) =>
         \A i \in ByStripeId(sid) :
           subs[i].status = "active" => subs'[i].status = "suspended"]_vars

\* row i has status active, cancelled or suspended and its end_date has
\* passed
PastEndDate(i) ==
  /\ i \in DOMAIN subs
  /\ subs[i].status \in {"active", "cancelled", "suspended"}
  /\ subs[i].end_date # None
  /\ subs[i].end_date < now

\* C14: a subscription with status active, cancelled or suspended whose
\* end_date has passed eventually reaches status expired
ExpiresEventually ==
  \A i \in 1..MaxSubs :
    PastEndDate(i) ~> (i \in DOMAIN subs /\ subs[i].status = "expired")

\* C15: whenever a new row is created for a user, every prior row of that
\* user with status active is left with status cancelled and end_date equal
\* to the creation time
PriorActiveIsClosed ==
  [][Len(subs') = Len(subs) + 1 =>
       \A i \in DOMAIN subs :
         (subs[i].user_id = subs'[Len(subs')].user_id
            /\ subs[i].status = "active") =>
           (subs'[i].status = "cancelled" /\ subs'[i].end_date = now)]_vars

\* C16: at every time, is_active() of a row is true exactly when its status
\* is active and its end_date is null or strictly later than that time
IsActiveIffStatusAndEndDate ==
  \A i \in DOMAIN subs : \A t \in Times :
    is_active(subs[i], t) <=>
      (subs[i].status = "active"
         /\ (subs[i].end_date = None \/ subs[i].end_date > t))

\* a row has status active and its end_date is the present instant
ActiveStatusAtEndDate ==
  \E i \in DOMAIN subs :
    subs[i].status = "active" /\ subs[i].end_date = now

\* C17: for a row whose status is not active, or whose end_date has passed,
\* can_use_feature returns false for every feature kind
InactiveCanUseNothing ==
  \A i \in DOMAIN subs : \A f \in FeatureKinds :
    (subs[i].status # "active"
       \/ (subs[i].end_date # None /\ subs[i].end_date <= now)) =>
      ~can_use_feature(subs[i], f, now)

\* a cancelled row on the plan with unlimited counts and feature flags set,
\* beside a row with status active whose end_date has passed
InactiveRowsOnRichPlan ==
  /\ \E i \in DOMAIN subs :
       subs[i].plan_id = "premium" /\ subs[i].status = "cancelled"
  /\ \E i \in DOMAIN subs :
       /\ subs[i].plan_id = "premium" /\ subs[i].status = "active"
       /\ subs[i].end_date # None /\ subs[i].end_date <= now

\* the request of worker p for a countable feature is at the step of
\* can_use_feature that compares the counter with the limit
Deciding(p) ==
  /\ loc[p].feature \in Countable
  /\ \/ pc[p] = "inc_eval"
     \/ /\ pc[p] = "inc_check"
        /\ is_active(loc[p].snap, now)
        /\ ~NeedsReset(loc[p].snap, now)

\* the counter and the plan that step evaluates: those of the loaded row,
\* or those read again after the lazy reset
Evaluated(p) ==
  IF pc[p] = "inc_eval"
  THEN Attrs(subs[loc[p].sid], loc[p].feature)
  ELSE loc[p].snap

\* C18: for an active subscription and a countable feature, can_use_feature
\* lets the request pass exactly when the plan's limit is 0 or the counter it
\* evaluates is strictly below the limit
VerdictIffUnlimitedOrBelow ==
  [][\A p \in Procs :
       (Deciding(p) /\ pc'[p] # pc[p]) =>
         /\ pc'[p] \in {"idle", "inc_write"}
         /\ (pc'[p] = "inc_write") <=>
              (\/ Limit(Evaluated(p).plan_id, loc[p].feature) = 0
               \/ Evaluated(p).used
                    < Limit(Evaluated(p).plan_id, loc[p].feature))]_vars

\* a request passed on a plan without limit although the counter it read is
\* not 0
UnlimitedPassesWithUsage ==
  \E p \in Procs :
    /\ pc[p] = "inc_write"
    /\ loc[p].feature \in Countable
    /\ Limit(subs[loc[p].sid].plan_id, loc[p].feature) = 0
    /\ loc[p].snap.used > 0

\* the seven feature kinds can_use_feature knows
KnownKinds == Countable \cup BooleanFeatures

\* worker p serves an increment request for a feature kind outside them
ServesUnknownKind(p) ==
  pc[p] \in {"inc_check", "inc_eval"} /\ loc[p].feature \notin KnownKinds

\* C19 as stated: can_use_feature is false for a feature kind outside the
\* seven known kinds, and an increment request for such a kind never passes
\* and changes no counter
UnknownKindDeniedUnchanged ==
  [][/\ \A i \in DOMAIN subs : \A f \in FeatureKinds \ KnownKinds :
          ~can_use_feature(subs[i], f, now)
     /\ \A p \in Procs :
          (ServesUnknownKind(p) /\ pc'[p] # pc[p]) =>
            pc'[p] # "inc_write" /\ SameCounters(loc[p].sid)]_vars

\* C19 amended: as above, with no counter changed provided the request's
\* entitlement check does not apply the lazy reset; the request is denied
\* in either case
UnknownKindDeniedWithoutReset ==
  [][/\ \A i \in DOMAIN subs : \A f \in FeatureKinds \ KnownKinds :
          ~can_use_feature(subs[i], f, now)
     /\ \A p \in Procs :
          (ServesUnknownKind(p) /\ pc'[p] # pc[p]) =>
            /\ pc'[p] # "inc_write"
            /\ pc[p] = "inc_eval" => pc'[p] = "idle"
            /\ ~(pc[p] = "inc_check" /\ is_active(loc[p].snap, now)
                   /\ NeedsReset(loc[p].snap, now)) =>
                 (pc'[p] = "idle" /\ subs' = subs)]_vars

\* a request for an unknown feature kind is about to be checked on an active
\* row that has usage counted and no reset due
UnknownKindCheckPending ==
  \E p \in Procs :
    /\ pc[p] = "inc_check"
    /\ loc[p].feature \notin KnownKinds
    /\ is_active(loc[p].snap, now)
    /\ ~NeedsReset(loc[p].snap, now)
    /\ subs[loc[p].sid].interviews_used_this_month > 0

\* the checks of voucher validation in the order of the specification, each
\* with whether it fails and the reasons it may give
ValidationChecks(code, u, plan, t) ==
  LET exists == VoucherByCode(code) # {}
      v == vouchers[CHOOSE vid \in VoucherByCode(code) : TRUE] IN
  << [fails |-> ~exists, reasons |-> {"Invalid voucher code"}],
     [fails |-> exists /\ ~v.is_active,
      reasons |-> {"Voucher is not active"}],
     [fails |-> exists /\ ~((v.valid_from = None \/ v.valid_from <= t)
                               /\ (v.valid_until = None \/ t <= v.valid_until)),
      reasons |-> {"Voucher is not yet valid", "Voucher has expired"}],
     [fails |-> exists /\ ~(v.used_count < v.max_uses),
      reasons |-> {"Voucher usage limit reached"}],
     [fails |-> exists /\ plan # "" /\ v.applicable_plans # {}
                  /\ plan \notin v.applicable_plans,
      reasons |-> {"Voucher not applicable to this plan"}],
     [fails |-> exists /\ u # 0 /\ v.single_use_per_user
                  /\ \E k \in DOMAIN voucher_uses :
                       /\ voucher_uses[k].user_id = u
                       /\ vouchers[voucher_uses[k].voucher_id].code = code,
      reasons |-> {"Voucher already used by this user"}] >>

\* C20: validation answers with a reason of the first failing check in the
\* order exists, active, validity window, usage limit, plan allow-list,
\* prior redemption by the user; reasons of different checks are distinct;
\* and it succeeds exactly when no check fails
ValidationInOrder ==
  \A code \in ValidateCodes, u \in {0} \cup Users, plan \in {""} \cup PlanIds :
    LET cs == ValidationChecks(code, u, plan, now)
        failing == {k \in DOMAIN cs : cs[k].fails} IN
    /\ \A j, k \in DOMAIN cs :
         j # k => cs[j].reasons \cap cs[k].reasons = {}
    /\ \A k \in DOMAIN cs : "Voucher is valid" \notin cs[k].reasons
    /\ \A r \in ValidateResult(code, u, plan, now) :
         IF failing = {}
         THEN r = "Voucher is valid"
         ELSE r \in cs[CHOOSE k \in failing : \A j \in failing : k <= j].reasons

\* a stored voucher fails several checks at once: it has expired, its usage
\* limit is reached and user 1 has redeemed it
SeveralChecksFail ==
  \E vid \in DOMAIN vouchers :
    /\ vouchers[vid].is_active
    /\ vouchers[vid].valid_until # None /\ vouchers[vid].valid_until < now
    /\ vouchers[vid].used_count >= vouchers[vid].max_uses
    /\ vouchers[vid].single_use_per_user /\ UsedBy(vid, 1) # {}

\* C21: a voucher whose valid_until equals the current time is treated as
\* expired: validation at that instant fails with the reason of expiry, the
\* reason a valid_until in the past gives
ExpiredAtValidUntil ==
  \A vid \in DOMAIN vouchers :
    LET v == vouchers[vid] IN
    (/\ v.is_active
     /\ v.valid_from = None \/ v.valid_from <= now
     /\ v.valid_until <= now) =>
      \A u \in {0} \cup Users, plan \in {""} \cup PlanIds :
        is_valid(vid, u, plan, now) = "Voucher has expired"

\* C22: for every voucher that create_voucher accepts and every original
\* amount >= 0, calculate_discount returns d with 0 <= d <= original amount
DiscountWithinAmount ==
  \A vid \in DOMAIN vouchers : \A a \in Amounts :
    \A d \in calculate_discount(vouchers[vid], a) : 0 <= d /\ d <= a

\* C23: calculate_discount returns original * value / 100 for a percentage
\* voucher and min(value, original) for a fixed voucher
DiscountIsExactShare ==
  \A vid \in DOMAIN vouchers : \A a \in Amounts :
    LET v == vouchers[vid] IN
    \A d \in calculate_discount(v, a) :
      IF v.discount_type = "percentage"
      THEN 100 * d = a * v.discount_value
      ELSE d = IF v.discount_value < a THEN v.discount_value ELSE a

\* C23, amended: the percentage discount is original * value / 100 taken to
\* the nearest cent, the fixed discount is min(value, original); 20% of
\* 100.00 is 20.00, a fixed 150.00 on 100.00 is 100.00 and 100% is all of it
DiscountIsRoundedShare ==
  \A vid \in DOMAIN vouchers : \A a \in Amounts :
    LET v == vouchers[vid] IN
    \A d \in calculate_discount(v, a) :
      /\ IF v.discount_type = "percentage"
         THEN /\ 100 * d - a * v.discount_value <= 50
              /\ a * v.discount_value - 100 * d <= 50
         ELSE /\ d <= v.discount_value /\ d <= a
              /\ d = v.discount_value \/ d = a
      /\ (v.discount_type = "percentage" /\ v.discount_value = 20
            /\ a = 10000) => d = 2000
      /\ (v.discount_type = "fixed_amount" /\ v.discount_value = 15000
            /\ a = 10000) => d = 10000
      /\ (v.discount_type = "percentage" /\ v.discount_value = 100) => d = a

\* a percentage voucher on record whose share of one of the amounts is not a
\* whole number of cents
ShareNotWholeCents ==
  \E vid \in DOMAIN vouchers : \E a \in Amounts :
    /\ vouchers[vid].discount_type = "percentage"
    /\ (a * vouchers[vid].discount_value) % 100 # 0
    /\ calculate_discount(vouchers[vid], a) # {}

\* C24: a purchase that succeeds with a voucher inserts exactly one
\* VoucherUse of that voucher and user and raises used_count by one in the
\* same step, so that used_count is the number of redemption records
PurchaseRecordsRedemption ==
  [][\A p \in Procs :
       (/\ pc[p] = "sub_apply" /\ pc'[p] = "idle"
        /\ loc[p].vid # 0
        /\ Len(subs') = Len(subs) + 1) =>
         /\ vouchers'[loc[p].vid].used_count
              = vouchers[loc[p].vid].used_count + 1
         /\ Len(voucher_uses') = Len(voucher_uses) + 1
         /\ voucher_uses'[Len(voucher_uses')].voucher_id = loc[p].vid
         /\ voucher_uses'[Len(voucher_uses')].user_id = loc[p].user]_vars

\* C25: a single_use_per_user voucher is applied for a user only if that
\* user has no earlier successful application of it
SingleUsePerUser ==
  [][\A v \in DOMAIN vouchers : \A u \in Users :
       (/\ coupons'[v][u].attached > coupons[v][u].attached
        /\ vouchers[v].single_use_per_user) =>
         coupons[v][u].attached = 0]_vars

\* C26: a subscribe request that ends with an error writes nothing: the
\* user's row, the subscriptions, the vouchers, the redemptions and the
\* transactions are left as they were
FailedSubscribeWritesNothing ==
  [][\A p \in Procs :
       (/\ pc[p] \in {"sub_create", "sub_apply"} /\ pc'[p] = "idle"
        /\ Plans[loc[p].plan].price_monthly # 0
        /\ Len(subs') = Len(subs)) =>
         UNCHANGED <<subs, customer, vouchers, voucher_uses, txns>>]_vars

\* the transaction a step has appended
Appended == txns'[Len(txns')]

\* C27: a payment-succeeded or payment-failed webhook event naming a known
\* subscription appends exactly one PaymentTransaction, completed or failed
\* as the event is; an event naming no or an unknown subscription appends
\* nothing and changes no subscription; and no step modifies or removes a
\* PaymentTransaction
WebhookAppendsOneTransaction ==
  [][/\ Len(txns') >= Len(txns)
     /\ \A k \in DOMAIN txns : txns'[k] = txns[k]
     /\ Len(txns') > Len(txns) =>
          /\ Len(txns') = Len(txns) + 1
          /\ Appended.subscription_id \in DOMAIN subs
          /\ subs[Appended.subscription_id].stripe_subscription_id # None
          /\ Appended.user_id = subs[Appended.subscription_id].user_id
     /\ \A sid \in SidInputs :
          /\ (handle_payment_succeeded(sid) /\ sid # None
                /\ ByStripeId(sid) # {}) =>
               /\ Len(txns') = Len(txns) + 1
               /\ Appended.status = "completed"
               /\ Appended.subscription_id \in ByStripeId(sid)
          /\ (handle_payment_failed(sid) /\ sid # None
                /\ ByStripeId(sid) # {}) =>
               /\ Len(txns') = Len(txns) + 1
               /\ Appended.status = "failed"
               /\ Appended.subscription_id \in ByStripeId(sid)
          /\ ((handle_payment_succeeded(sid) \/ handle_payment_failed(sid))
                /\ (sid = None \/ ByStripeId(sid) = {})) =>
               txns' = txns /\ subs' = subs]_vars

\* a payment of a subscription has failed and a later one has succeeded
FailedThenCompleted ==
  \E j, k \in DOMAIN txns :
    /\ j < k
    /\ txns[j].status = "failed" /\ txns[k].status = "completed"
    /\ txns[j].subscription_id = txns[k].subscription_id

\* C28: in every reachable state the usage_reset_date of every subscription
\* is at or before the current time, right after the row's creation and
\* after each lazy reset included
ResetDateNotInFuture ==
  \A i \in DOMAIN subs : subs[i].usage_reset_date <= now

\* a check has just applied the lazy reset to the row it loaded: the row's
\* usage_reset_date has moved on from the one in the worker's snapshot
LazyResetJustApplied ==
  \E p \in Procs :
    /\ pc[p] = "inc_eval"
    /\ loc[p].snap.usage_reset_date < subs[loc[p].sid].usage_reset_date
    /\ subs[loc[p].sid].usage_reset_date = ReplaceDay1(now)

\* C29: a usage query does not report a stale count: when the month has
\* rolled over since usage_reset_date, the interviews_used_this_month and
\* the usage_reset_date it returns are those the row has after the lazy reset
UsageQueryReportsReset ==
  [][\A u \in Users : \A i \in ActiveRows(u) :
       (/\ UsageQueryOn(u, i)
        /\ is_active(subs[i], now)
        /\ Month(subs[i].usage_reset_date) < Month(now)) =>
         /\ usage_stats(subs[i]).interviews_used_this_month
              = subs'[i].interviews_used_this_month
         /\ usage_stats(subs[i]).usage_reset_date
              = subs'[i].usage_reset_date]_vars

\* C30: when the gateway call of a cancellation fails, or the user has no
\* subscription of status active, the cancellation changes no subscription
\* row
FailedCancelChangesNothing ==
  [][\A u \in Users, immediate \in BOOLEAN :
       /\ \A i \in ActiveRows(u) :
            subs[i].stripe_subscription_id # None =>
              Cancelled(subs[i], immediate, FALSE, now) = subs[i]
       /\ (/\ cancel_subscription(u, immediate, FALSE)
           /\ \A i \in ActiveRows(u) :
                subs[i].stripe_subscription_id # None) =>
            subs' = subs]_vars

\* a user's paid subscription of status active, whose cancellation calls the
\* gateway, next to a cancelled one of the same user
PaidActiveBesideCancelled ==
  \E u \in Users : \E i \in ActiveRows(u) : \E j \in DOMAIN subs :
    /\ subs[i].stripe_subscription_id # None
    /\ subs[j].user_id = u /\ subs[j].status = "cancelled"

====
